---- MODULE Spec2Model ----
(***************************************************************************)
(* LearnSphere: the learning-flow session (MainContent), the topic         *)
(* selection step, the quiz grader (QuizRunner) and the flashcard test     *)
(* (FlashcardView / FlashcardTestView) of src/index.tsx, with the API      *)
(* client of src/api-client.js as the environment that answers requests.   *)
(*                                                                         *)
(* JavaScript arrays are sequences; an array index of the source is        *)
(* 0-based and is kept 0-based in the state (currentIndex, insertIndex),   *)
(* the element at JS index i being s[i + 1].                               *)
(***************************************************************************)
EXTENDS Naturals, Integers, Sequences, FiniteSets, Bags, TLC

VARIABLES
    \* MainContent (index.tsx 68-100)
    flowStep, subject, syllabus, topicSelection,
    contentType, contentSource, uploadedPdf, sourceUrl,
    result, groundingChunks, quizContent,
    error, isLoading, isExtracting, isGeneratingQuiz,
    \* the handlers suspended at an await, as a bag: they resume in any order
    inflight,
    \* FlashcardView (index.tsx 1022-1025)
    flashcards, testState, currentCardIndex, isFlipped,
    \* history, not program state: the card that "Needs Review" has just
    \* moved, while no other button of the flashcard view was pressed since
    lastReviewed,
    \* QuizRunner (index.tsx 863-868): its quiz prop, its state, whether its
    \* handleSubmit is suspended at api.generateContent, and what the free
    \* identifier "ai" of line 903 resolves to
    quiz, userAnswers, submitted, results,
    personalizedSuggestions, isLoadingSuggestions, suggestionsCall, ai,
    \* FormattedContent (index.tsx 710-768): the lines of its content, the
    \* index forEach has reached, the locals of the useMemo callback and the
    \* elements it returned
    lines, lineIndex, elements, listType, listItems, isCodeBlock, codeContent,
    formatted

sessionVars == <<flowStep, subject, syllabus, topicSelection,
                 contentType, contentSource, uploadedPdf, sourceUrl,
                 result, groundingChunks, quizContent,
                 error, isLoading, isExtracting, isGeneratingQuiz, inflight>>
flashVars == <<flashcards, testState, currentCardIndex, isFlipped,
               lastReviewed>>
quizVars == <<quiz, userAnswers, submitted, results,
              personalizedSuggestions, isLoadingSuggestions, suggestionsCall, ai>>
renderVars == <<lines, lineIndex, elements, listType, listItems, isCodeBlock,
                codeContent, formatted>>
vars == <<sessionVars, flashVars, quizVars, renderVars>>
notSession == <<flashVars, quizVars, renderVars>>
notFlash == <<sessionVars, quizVars, renderVars>>
notQuiz == <<sessionVars, flashVars, renderVars>>
notRender == <<sessionVars, flashVars, quizVars>>

----------------------------------------------------------------------------
(* Bounds *)

\* largest flashcard deck
MaxDeck == 4

\* topics of the syllabus the topic step is checked on
NumTopics == 4

\* most questions of a quiz
MaxQuestions == 2

\* most lines of a rendered content
MaxLines == 3

----------------------------------------------------------------------------
(* JavaScript array helpers *)

\* reading an array past its end
Undefined == 0

Min(a, b) == IF a < b THEN a ELSE b
Max(a, b) == IF a > b THEN a ELSE b

\* arr[i] (0-based)
At(arr, i) == IF i < Len(arr) THEN arr[i + 1] ELSE Undefined

\* the array left by arr.splice(i, 1)
SpliceOut(arr, i) ==
    IF i < Len(arr)
    THEN SubSeq(arr, 1, i) \o SubSeq(arr, i + 2, Len(arr))
    ELSE arr

\* the array left by arr.splice(i, 0, x): a start past the end is clamped
SpliceIn(arr, i, x) ==
    LET k == Min(i, Len(arr))
    IN  SubSeq(arr, 1, k) \o <<x>> \o SubSeq(arr, k + 1, Len(arr))

\* every reordering of arr
RECURSIVE Reorderings(_)
Reorderings(arr) ==
    IF arr = <<>> THEN {<<>>}
    ELSE UNION {{<<arr[i]>> \o rest : rest \in Reorderings(SpliceOut(arr, i - 1))} :
                   i \in 1..Len(arr)}

Range(s) == {s[i] : i \in 1..Len(s)}

----------------------------------------------------------------------------
(* FlashcardView and FlashcardTestView *)

\* a card is the identity of its {question, answer} object
Decks == {[i \in 1..n |-> i] : n \in 1..MaxDeck}

InitialTestState ==
    [active |-> FALSE, cardsToTest |-> <<>>, masteredCards |-> <<>>,
     currentIndex |-> 0, showAnswer |-> FALSE]

\* [...flashcards].sort(() => Math.random() - 0.5): the comparator is not
\* consistent, so the order is whatever the engine's sort makes of it
Shuffles(deck) == Reorderings(deck)

\* the values Math.floor(Math.random() * (len / 2)) can take, Math.random()
\* being any real r with 0 <= r < 1: floor(r * len / 2) = j for some such r
\* iff j = 0 or j < len / 2
RandomHalf(len) == {j \in 0..len : j = 0 \/ 2 * j < len}

\* a variant that appends the card after the one spliced out
KnownMasteredNeighbour(cards, mastered, idx) ==
    Append(mastered, At(cards, idx + 1))

\* "I Knew It!": the card is spliced out and appended to masteredCards
\* a variant that splices two cards out
KnownCardsTwo(cards, idx) == SpliceOut(SpliceOut(cards, idx), idx)

\* a variant that leaves the card among the cards to test
KnownCardsKept(cards, idx) == cards

KnownCards(cards, idx) == SpliceOut(cards, idx)
\* a variant that puts the card in front of the mastered cards
KnownMasteredFirst(cards, mastered, idx) == <<At(cards, idx)>> \o mastered

KnownMastered(cards, mastered, idx) == Append(mastered, At(cards, idx))

\* "Needs Review": the card is spliced out and spliced back in at
\* floor(len / 2) + floor(random * (len / 2)), len the length without it
\* a variant that appends the card at the end
InsertIndexEnd(len, draw) == len

InsertIndex(len, draw) == (len \div 2) + draw

\* a variant that forgets to splice the card back in
ReviewCardsDropped(cards, idx, draw) == SpliceOut(cards, idx)

ReviewCards(cards, idx, draw) ==
    LET cardToMove == At(cards, idx)
        rest == SpliceOut(cards, idx)
    IN  SpliceIn(rest, InsertIndex(Len(rest), draw), cardToMove)

\* a variant that moves on to the next index
NextIndexAdvances(idx, cards) == idx + 1

NextIndex(idx, cards) == IF idx >= Len(cards) THEN 0 ELSE idx

FlashInit ==
    /\ flashcards \in Decks
    /\ testState = InitialTestState
    /\ currentCardIndex = 0
    /\ isFlipped = FALSE
    /\ lastReviewed = Undefined

StartTest ==
    /\ ~testState.active
    /\ \E shuffled \in Shuffles(flashcards) :
          testState' = [active |-> TRUE, cardsToTest |-> shuffled,
                        masteredCards |-> <<>>, currentIndex |-> 0,
                        showAnswer |-> FALSE]
    /\ UNCHANGED <<flashcards, currentCardIndex, isFlipped>>
    /\ lastReviewed' = Undefined
    /\ UNCHANGED notFlash

FlipCard ==
    /\ ~testState.active
    /\ isFlipped' = ~isFlipped
    /\ UNCHANGED <<flashcards, testState, currentCardIndex>>
    /\ lastReviewed' = Undefined
    /\ UNCHANGED notFlash

PreviousCard ==
    /\ ~testState.active
    /\ currentCardIndex' = Max(0, currentCardIndex - 1)
    /\ isFlipped' = FALSE
    /\ UNCHANGED <<flashcards, testState>>
    /\ lastReviewed' = Undefined
    /\ UNCHANGED notFlash

NextCard ==
    /\ ~testState.active
    /\ currentCardIndex' = Min(Len(flashcards) - 1, currentCardIndex + 1)
    /\ isFlipped' = FALSE
    /\ UNCHANGED <<flashcards, testState>>
    /\ lastReviewed' = Undefined
    /\ UNCHANGED notFlash

ShowAnswer ==
    /\ testState.active
    /\ Len(testState.cardsToTest) # 0
    /\ ~testState.showAnswer
    /\ testState' = [testState EXCEPT !.showAnswer = TRUE]
    /\ UNCHANGED <<flashcards, currentCardIndex, isFlipped>>
    /\ lastReviewed' = Undefined
    /\ UNCHANGED notFlash

\* a variant in which "I Knew It!" can be pressed before the answer is shown
MarkKnownUnrevealed ==
    /\ testState.active
    /\ Len(testState.cardsToTest) # 0
    /\ LET cardsToTest == KnownCards(testState.cardsToTest, testState.currentIndex)
       IN  testState' =
             [testState EXCEPT
                !.showAnswer = FALSE,
                !.masteredCards = KnownMastered(testState.cardsToTest,
                                                testState.masteredCards,
                                                testState.currentIndex),
                !.currentIndex = NextIndex(testState.currentIndex, cardsToTest),
                !.cardsToTest = cardsToTest]
    /\ UNCHANGED <<flashcards, currentCardIndex, isFlipped>>
    /\ lastReviewed' = Undefined
    /\ UNCHANGED notFlash

MarkKnown ==
    /\ testState.active
    /\ Len(testState.cardsToTest) # 0
    /\ testState.showAnswer
    /\ LET cardsToTest == KnownCards(testState.cardsToTest, testState.currentIndex)
       IN  testState' =
             [testState EXCEPT
                !.showAnswer = FALSE,
                !.masteredCards = KnownMastered(testState.cardsToTest,
                                                testState.masteredCards,
                                                testState.currentIndex),
                !.currentIndex = NextIndex(testState.currentIndex, cardsToTest),
                !.cardsToTest = cardsToTest]
    /\ UNCHANGED <<flashcards, currentCardIndex, isFlipped>>
    /\ lastReviewed' = Undefined
    /\ UNCHANGED notFlash

MarkNeedsReview ==
    /\ testState.active
    /\ Len(testState.cardsToTest) # 0
    /\ testState.showAnswer
    /\ \E draw \in RandomHalf(Len(testState.cardsToTest) - 1) :
          LET cardsToTest == ReviewCards(testState.cardsToTest,
                                         testState.currentIndex, draw)
          IN  testState' =
                [testState EXCEPT
                   !.showAnswer = FALSE,
                   !.currentIndex = NextIndex(testState.currentIndex, cardsToTest),
                   !.cardsToTest = cardsToTest]
    /\ UNCHANGED <<flashcards, currentCardIndex, isFlipped>>
    /\ lastReviewed' = At(testState.cardsToTest, testState.currentIndex)
    /\ UNCHANGED notFlash

BackToFlashcards ==
    /\ testState.active
    /\ Len(testState.cardsToTest) = 0
    /\ testState' = [testState EXCEPT !.active = FALSE]
    /\ UNCHANGED <<flashcards, currentCardIndex, isFlipped>>
    /\ lastReviewed' = Undefined
    /\ UNCHANGED notFlash

\* what FlashcardTestView renders of a running test: the congratulations,
\* or the current card
CompletionShown == testState.active /\ Len(testState.cardsToTest) = 0
TestCardShown == testState.active /\ Len(testState.cardsToTest) # 0

\* the decks a refined result can hold: JSON.parse of the response, an
\* array of any length
RefinedDecks == {[i \in 1..n |-> i] : n \in 0..MaxDeck}

\* "Refine Content" on a flashcard result: handleGenerateContent keeps the
\* result while it waits, ResultView keeps FlashcardView mounted, and the
\* response then replaces the flashcards prop under the state of the view
DeckRefined ==
    /\ \E refined \in RefinedDecks : flashcards' = refined
    /\ UNCHANGED <<testState, currentCardIndex, isFlipped>>
    /\ lastReviewed' = Undefined
    /\ UNCHANGED notFlash

NextFlash ==
    \/ StartTest
    \/ FlipCard
    \/ PreviousCard
    \/ NextCard
    \/ ShowAnswer
    \/ MarkKnown
    \/ MarkNeedsReview
    \/ BackToFlashcards

----------------------------------------------------------------------------
(* JavaScript values of more than one type (result, syllabus) *)

Null == [type |-> "null"]
Str(s) == [type |-> "string", text |-> s]
Arr(a) == [type |-> "array", items |-> a]

\* !!v
Truthy(v) ==
    CASE v.type = "null" -> FALSE
      [] v.type = "string" -> v.text # ""
      [] OTHER -> TRUE

\* the texts the user types: s.trim() of each
BlankTexts == {"", "  "}
Trim(s) == IF s \in BlankTexts THEN "" ELSE s

----------------------------------------------------------------------------
(* TopicSelectionStep *)

NoUnit == "<null>"

EmptySelection == [unit |-> NoUnit, topics |-> <<>>]

Includes(arr, x) == \E i \in 1..Len(arr) : arr[i] = x

\* arr.filter(t => t !== x)
RECURSIVE FilterOut(_, _)
FilterOut(arr, x) ==
    IF arr = <<>> THEN <<>>
    ELSE IF Head(arr) = x THEN FilterOut(Tail(arr), x)
    ELSE <<Head(arr)>> \o FilterOut(Tail(arr), x)

\* the limit of "if (newTopics.length > 3) return"
MaxTopics == 3

\* a variant that keeps the topics when a unit is selected
UnitSelectedKeepsTopics(selection, unitName) ==
    IF selection.unit = unitName
    THEN [unit |-> NoUnit, topics |-> <<>>]
    ELSE [unit |-> unitName, topics |-> selection.topics]

UnitSelected(selection, unitName) ==
    IF selection.unit = unitName
    THEN [unit |-> NoUnit, topics |-> <<>>]
    ELSE [unit |-> unitName, topics |-> <<>>]

NewTopics(selection, topicName) ==
    IF Includes(selection.topics, topicName)
    THEN FilterOut(selection.topics, topicName)
    ELSE Append(selection.topics, topicName)

\* a variant without the limit
TopicSelectedUnlimited(selection, topicName) ==
    [unit |-> NoUnit, topics |-> NewTopics(selection, topicName)]

TopicSelected(selection, topicName) ==
    LET newTopics == NewTopics(selection, topicName)
    IN  IF Len(newTopics) > MaxTopics
        THEN selection
        ELSE [unit |-> NoUnit, topics |-> newTopics]

\* !selection.unit && selection.topics.length === 0
IsNextDisabled(selection) ==
    selection.unit = NoUnit /\ Len(selection.topics) = 0

\* a syllabus of two units that share NumTopics topics
TopicName(i) == "Topic " \o ToString(i)
TopicSyllabus ==
    Arr(<<[unit |-> "Unit 1",
           topics |-> [i \in 1..(NumTopics \div 2) |-> TopicName(i)]],
          [unit |-> "Unit 2",
           topics |-> [i \in 1..(NumTopics - NumTopics \div 2) |->
                          TopicName(i + NumTopics \div 2)]]>>)

UnitsOf(syl) == {syl.items[i].unit : i \in 1..Len(syl.items)}
TopicsOf(syl) ==
    UNION {Range(syl.items[i].topics) : i \in 1..Len(syl.items)}

----------------------------------------------------------------------------
(* The API client and the texts it returns *)

\* most calls of api.generateContent pending at once
MaxInFlight == 2

ProseText == "## Cell biology"
CardsJson == "[{question,answer},{question,answer}]"
SyllabusJson == "[{unit,topics}]"

SessionSyllabus == Arr(<<[unit |-> "Unit 1", topics |-> <<"Cells">>]>>)
SessionDeck == Arr(<<1, 2>>)

QuizJson == "{title,questions,swotAnalysis}"
\* JSON that parses and is of none of the shapes asked for
OtherJson == "{\"note\":\"no content\"}"

SessionQuiz ==
    [type |-> "object", title |-> "Cells", questions |-> <<"Paris">>,
     swotAnalysis |-> "Strengths"]
OtherValue == [type |-> "object", note |-> "no content"]

\* JSON.parse(text)
JsonParse(text) ==
    CASE text = CardsJson -> [ok |-> TRUE, value |-> SessionDeck]
      [] text = SyllabusJson -> [ok |-> TRUE, value |-> SessionSyllabus]
      [] text = QuizJson -> [ok |-> TRUE, value |-> SessionQuiz]
      [] text = OtherJson -> [ok |-> TRUE, value |-> OtherValue]
      [] OTHER -> [ok |-> FALSE, message |-> "Unexpected token # in JSON at position 0"]

GroundingValues == {Null, Arr(<<"https://example.org/cells">>)}

\* what fetch('/api/gemini') comes back with
HttpOutcomes(texts) ==
    {[kind |-> "ok", text |-> t, groundingChunks |-> g] :
        t \in texts, g \in GroundingValues}
    \cup {[kind |-> "not_ok", statusText |-> "Internal Server Error"],
          [kind |-> "network_error"]}

\* LearnSphereAPI.generateContent: the parsed body, or the error thrown
ApiGenerateContent(http) ==
    CASE http.kind = "ok" ->
           [threw |-> FALSE, text |-> http.text,
            groundingChunks |-> http.groundingChunks]
      [] http.kind = "not_ok" ->
           [threw |-> TRUE,
            message |-> "API request failed: " \o http.statusText]
      [] OTHER -> [threw |-> TRUE, message |-> "Failed to fetch"]

----------------------------------------------------------------------------
(* MainContent *)

\* the content types of the two selects; the prose types differ only in
\* the wording of the prompt, "In-depth Explanation" stands for them
ContentTypes == {"In-depth Explanation", "Flashcards", "Mindmap"}
ContentSources == {"ai_knowledge", "pdf_upload", "url"}
Subjects == {"", "  ", "Biology"}
SourceUrls == {"", "https://example.com/resource"}
NoFile == "<null>"
PdfFile == "notes.pdf"
\* an argument left out of a call
NoArg == "<undefined>"
Feedback == "Explain this more simply"

MindmapMessage ==
    "Mindmap generation is not available in this version. Please select another content type."
PdfMessage == "Please upload a PDF file to use as a source."
UrlMessage == "Please enter a URL to use as a source."

SessionInit ==
    /\ flowStep = "profile"
    /\ subject = ""
    /\ syllabus = Null
    /\ topicSelection = EmptySelection
    /\ contentType = "In-depth Explanation"
    /\ contentSource = "ai_knowledge"
    /\ uploadedPdf = NoFile
    /\ sourceUrl = ""
    /\ result = Null
    /\ groundingChunks = Null
    /\ quizContent = Null
    /\ error = ""
    /\ isLoading = FALSE
    /\ isExtracting = FALSE
    /\ inflight = EmptyBag
    /\ isGeneratingQuiz = FALSE

\* a pending call: kind and stage say where its handler is suspended (at
\* fileToBase64 or at api.generateContent), ctype is the handler's
\* currentContentType, origin the step shown when the handler was called
Request(kind, stage, ctype) ==
    [kind |-> kind, stage |-> stage, ctype |-> ctype, origin |-> flowStep]

\* what renderCurrentStep shows: the error box replaces every step
ErrorShown == error # ""
StepShown(step) == ~ErrorShown /\ flowStep = step
\* QuizRunner reads quiz.questions.map when it renders: with a quiz of
\* another shape the render throws and React unmounts the page
QuizRunnerThrows == Truthy(quizContent) /\ "questions" \notin DOMAIN quizContent
ResultViewShown ==
    StepShown("result") /\ Truthy(result) /\ ~QuizRunnerThrows

\* "Start New Session", beside the error box or the result step
ResetFlow ==
    /\ ErrorShown
       \/ (flowStep = "result" /\ ~(Truthy(result) /\ QuizRunnerThrows))
    /\ flowStep' = "profile"
    /\ subject' = ""
    /\ syllabus' = Null
    /\ topicSelection' = EmptySelection
    /\ contentType' = "In-depth Explanation"
    /\ contentSource' = "ai_knowledge"
    /\ uploadedPdf' = NoFile
    /\ sourceUrl' = ""
    /\ result' = Null
    /\ groundingChunks' = Null
    /\ quizContent' = Null
    /\ error' = ""
    /\ isLoading' = FALSE
    /\ isExtracting' = FALSE
    /\ UNCHANGED inflight
    /\ UNCHANGED isGeneratingQuiz
    /\ UNCHANGED notSession

PreviousStep(step) ==
    IF step = "syllabus" THEN "profile"
    ELSE IF step = "topic" THEN "syllabus"
    ELSE "topic"

Back ==
    /\ flowStep # "profile" /\ flowStep # "result"
    /\ flowStep' = PreviousStep(flowStep)
    /\ UNCHANGED <<subject, syllabus, topicSelection, contentType,
                   contentSource, uploadedPdf, sourceUrl, result,
                   groundingChunks, quizContent, error, isLoading,
                   isExtracting, inflight>>
    /\ UNCHANGED isGeneratingQuiz
    /\ UNCHANGED notSession

GoTo(step) ==
    /\ flowStep' = step
    /\ UNCHANGED <<subject, syllabus, topicSelection, contentType,
                   contentSource, uploadedPdf, sourceUrl, result,
                   groundingChunks, quizContent, error, isLoading,
                   isExtracting, inflight>>
    /\ UNCHANGED isGeneratingQuiz
    /\ UNCHANGED notSession

ProfileNext == StepShown("profile") /\ GoTo("syllabus")

SetSubject ==
    /\ StepShown("syllabus")
    /\ \E s \in Subjects : subject' = s
    /\ UNCHANGED <<flowStep, syllabus, topicSelection, contentType,
                   contentSource, uploadedPdf, sourceUrl, result,
                   groundingChunks, quizContent, error, isLoading,
                   isExtracting, inflight>>
    /\ UNCHANGED isGeneratingQuiz
    /\ UNCHANGED notSession

SyllabusNext ==
    /\ StepShown("syllabus")
    /\ Truthy(syllabus) /\ Trim(subject) # ""
    /\ GoTo("topic")

\* handleSyllabusExtract up to its first await; the file input is disabled
\* while isExtracting
SyllabusUpload ==
    /\ StepShown("syllabus")
    /\ ~isExtracting
    /\ BagCardinality(inflight) < MaxInFlight
    /\ isExtracting' = TRUE
    /\ error' = ""
    /\ inflight' = inflight (+) SetToBag({Request("syllabus", "read", NoArg)})
    /\ UNCHANGED <<flowStep, subject, syllabus, topicSelection, contentType,
                   contentSource, uploadedPdf, sourceUrl, result,
                   groundingChunks, quizContent, isLoading>>
    /\ UNCHANGED isGeneratingQuiz
    /\ UNCHANGED notSession

\* the catch and finally blocks of handleSyllabusExtract
ExtractFailed(message) ==
    /\ error' = "Failed to extract from syllabus. Please try again or enter topics manually. Error: "
                   \o message
    /\ syllabus' = Null
    /\ isExtracting' = FALSE

ExtractSucceeded(extracted) ==
    /\ syllabus' = extracted
    /\ isExtracting' = FALSE
    /\ error' = error

\* api.generateContent returns to the handleSyllabusExtract call req, with
\* what fetch got (lines 146-154)
SyllabusReturnsWith(req, http) ==
    /\ req \in BagToSet(inflight)
    /\ req.kind = "syllabus" /\ req.stage = "api"
    /\ inflight' = inflight (-) SetToBag({req})
    /\ LET out == ApiGenerateContent(http)
       IN  IF out.threw
           THEN ExtractFailed(out.message)
           ELSE LET parsed == JsonParse(Trim(out.text))
                IN  IF parsed.ok
                    THEN ExtractSucceeded(parsed.value)
                    ELSE ExtractFailed(parsed.message)
    /\ UNCHANGED <<flowStep, subject, topicSelection, contentType,
                   contentSource, uploadedPdf, sourceUrl, result,
                   groundingChunks, quizContent, isLoading>>
    /\ UNCHANGED isGeneratingQuiz
    /\ UNCHANGED notSession

SyllabusOutcomes == HttpOutcomes({SyllabusJson, ProseText})

SyllabusReturns ==
    \E req \in BagToSet(inflight), http \in SyllabusOutcomes :
       SyllabusReturnsWith(req, http)

HandleUnitSelect ==
    /\ StepShown("topic") /\ Truthy(syllabus)
    /\ \E unitName \in UnitsOf(syllabus) :
          topicSelection' = UnitSelected(topicSelection, unitName)
    /\ UNCHANGED <<flowStep, subject, syllabus, contentType, contentSource,
                   uploadedPdf, sourceUrl, result, groundingChunks,
                   quizContent, error, isLoading, isExtracting, inflight>>
    /\ UNCHANGED isGeneratingQuiz
    /\ UNCHANGED notSession

\* the handler as it is written: the checkbox's "disabled" (line 509) keeps
\* a click from reaching it with a 4th topic, the handler itself rejects one
HandleTopicSelect ==
    /\ StepShown("topic") /\ Truthy(syllabus)
    /\ \E topicName \in TopicsOf(syllabus) :
          topicSelection' = TopicSelected(topicSelection, topicName)
    /\ UNCHANGED <<flowStep, subject, syllabus, contentType, contentSource,
                   uploadedPdf, sourceUrl, result, groundingChunks,
                   quizContent, error, isLoading, isExtracting, inflight>>
    /\ UNCHANGED isGeneratingQuiz
    /\ UNCHANGED notSession

TopicNext ==
    /\ StepShown("topic") /\ Truthy(syllabus)
    /\ ~IsNextDisabled(topicSelection)
    /\ GoTo("generate")

\* the inputs of GenerateStep
SetContentType ==
    /\ StepShown("generate")
    /\ \E t \in ContentTypes : contentType' = t
    /\ UNCHANGED <<flowStep, subject, syllabus, topicSelection,
                   contentSource, uploadedPdf, sourceUrl, result,
                   groundingChunks, quizContent, error, isLoading,
                   isExtracting, inflight>>
    /\ UNCHANGED isGeneratingQuiz
    /\ UNCHANGED notSession

SetContentSource ==
    /\ StepShown("generate")
    /\ \E src \in ContentSources : contentSource' = src
    /\ UNCHANGED <<flowStep, subject, syllabus, topicSelection, contentType,
                   uploadedPdf, sourceUrl, result, groundingChunks,
                   quizContent, error, isLoading, isExtracting, inflight>>
    /\ UNCHANGED isGeneratingQuiz
    /\ UNCHANGED notSession

SetUploadedPdf ==
    /\ StepShown("generate") /\ contentSource = "pdf_upload"
    /\ uploadedPdf' = PdfFile
    /\ UNCHANGED <<flowStep, subject, syllabus, topicSelection, contentType,
                   contentSource, sourceUrl, result, groundingChunks,
                   quizContent, error, isLoading, isExtracting, inflight>>
    /\ UNCHANGED isGeneratingQuiz
    /\ UNCHANGED notSession

SetSourceUrl ==
    /\ StepShown("generate") /\ contentSource = "url"
    /\ \E u \in SourceUrls : sourceUrl' = u
    /\ UNCHANGED <<flowStep, subject, syllabus, topicSelection, contentType,
                   contentSource, uploadedPdf, result, groundingChunks,
                   quizContent, error, isLoading, isExtracting, inflight>>
    /\ UNCHANGED isGeneratingQuiz
    /\ UNCHANGED notSession

\* handleGenerateContent up to its first await
HandleGenerateContent(newContentType, iterationFeedback) ==
    LET currentContentType ==
            IF newContentType = NoArg THEN contentType ELSE newContentType
        rejected(message) ==
            /\ error' = message
            /\ isLoading' = FALSE
            /\ inflight' = inflight
        awaits(stage) ==
            /\ error' = ""
            /\ isLoading' = TRUE
            /\ inflight' = inflight (+) SetToBag(
                                  {Request("generate", stage, currentContentType)})
    IN  /\ BagCardinality(inflight) < MaxInFlight
        /\ IF iterationFeedback = NoArg
           THEN result' = Null /\ groundingChunks' = Null /\ quizContent' = Null
           ELSE UNCHANGED <<result, groundingChunks, quizContent>>
        /\ IF currentContentType = "Mindmap" THEN rejected(MindmapMessage)
           ELSE IF iterationFeedback # NoArg THEN awaits("api")
           ELSE IF contentSource = "pdf_upload"
                THEN IF uploadedPdf = NoFile
                     THEN rejected(PdfMessage)
                     ELSE awaits("read")
           ELSE IF contentSource = "url"
                THEN IF Trim(sourceUrl) = ""
                     THEN rejected(UrlMessage)
                     ELSE awaits("api")
           ELSE awaits("api")
        /\ UNCHANGED <<flowStep, subject, syllabus, topicSelection,
                       contentType, contentSource, uploadedPdf, sourceUrl,
                       isExtracting>>
        /\ UNCHANGED isGeneratingQuiz
        /\ UNCHANGED notSession

\* GenerateStep's button, disabled while isLoading
Generate ==
    /\ StepShown("generate") /\ ~isLoading
    /\ HandleGenerateContent(NoArg, NoArg)

\* RefineContent's Regenerate, with the type chosen in its select
Regenerate ==
    /\ ResultViewShown
    /\ \E selectedType \in ContentTypes :
          HandleGenerateContent(selectedType, NoArg)

\* IterateWithFeedback's button, disabled while isLoading; a blank feedback
\* returns before the call
RefineWithFeedback ==
    /\ ResultViewShown /\ ~isLoading
    /\ \E feedback \in {"", Feedback} :
          IF Trim(feedback) = ""
          THEN UNCHANGED vars
          ELSE HandleGenerateContent(NoArg, feedback)

ChangeTopics == ResultViewShown /\ GoTo("topic")
ChangeSubject == ResultViewShown /\ GoTo("syllabus")

\* fileToBase64 resolves: the handler goes on to api.generateContent
FileRead ==
    \E req \in BagToSet(inflight) :
       /\ req.stage = "read"
       /\ inflight' = (inflight (-) SetToBag({req}))
                          (+) SetToBag({[req EXCEPT !.stage = "api"]})
       /\ UNCHANGED <<flowStep, subject, syllabus, topicSelection,
                      contentType, contentSource, uploadedPdf, sourceUrl,
                      result, groundingChunks, quizContent, error, isLoading,
                      isExtracting>>
       /\ UNCHANGED isGeneratingQuiz
       /\ UNCHANGED notSession

\* a variant whose failure leaves the loading flag up and shows the result
\* step
GenerateFailedAdvances(message) ==
    /\ error' = "An error occurred: " \o message
    /\ isLoading' = isLoading
    /\ flowStep' = "result"
    /\ UNCHANGED <<result, contentType>>

\* the catch and finally blocks of handleGenerateContent
GenerateFailed(message) ==
    /\ error' = "An error occurred: " \o message
    /\ isLoading' = FALSE
    /\ UNCHANGED <<result, contentType, flowStep>>

\* lines 249-254 and the finally block
GenerateApplied(value, currentContentType) ==
    /\ result' = value
    /\ contentType' = currentContentType
    /\ flowStep' = "result"
    /\ isLoading' = FALSE
    /\ error' = error

\* api.generateContent returns to the handleGenerateContent call req, with
\* what fetch got (lines 242-259)
GenerateReturnsWith(req, http) ==
    /\ req \in BagToSet(inflight)
    /\ req.kind = "generate" /\ req.stage = "api"
    /\ inflight' = inflight (-) SetToBag({req})
    /\ LET out == ApiGenerateContent(http)
           currentContentType == req.ctype
       IN  IF out.threw
           THEN GenerateFailed(out.message) /\ UNCHANGED groundingChunks
           ELSE /\ groundingChunks' = out.groundingChunks
                /\ LET text == Trim(out.text)
                       parsed == JsonParse(text)
                   IN  IF currentContentType = "Flashcards"
                       THEN IF parsed.ok
                            THEN GenerateApplied(parsed.value, currentContentType)
                            ELSE GenerateFailed(parsed.message)
                       ELSE GenerateApplied(Str(text), currentContentType)
    /\ UNCHANGED <<subject, syllabus, topicSelection, contentSource,
                   uploadedPdf, sourceUrl, quizContent, isExtracting>>
    /\ UNCHANGED isGeneratingQuiz
    /\ UNCHANGED notSession

GenerateOutcomes == HttpOutcomes({ProseText, CardsJson, OtherJson})

GenerateReturns ==
    \E req \in BagToSet(inflight), http \in GenerateOutcomes :
       GenerateReturnsWith(req, http)

\* fileToBase64 rejects with the reader's event, which has no message
FileReadFails ==
    \E req \in BagToSet(inflight) :
       /\ req.stage = "read"
       /\ inflight' = inflight (-) SetToBag({req})
       /\ IF req.kind = "syllabus"
          THEN /\ ExtractFailed("undefined")
               /\ UNCHANGED <<isLoading, result, contentType, flowStep>>
          ELSE /\ GenerateFailed("undefined")
               /\ UNCHANGED <<isExtracting, syllabus>>
       /\ UNCHANGED <<subject, topicSelection, contentSource, uploadedPdf,
                      sourceUrl, groundingChunks, quizContent>>
       /\ UNCHANGED isGeneratingQuiz
       /\ UNCHANGED notSession

\* "Generate Quiz" of QuizGenerator, shown while there is no quiz and
\* disabled while one is generated: handleGenerateQuiz up to its await
HandleGenerateQuiz ==
    /\ ResultViewShown
    /\ ~Truthy(quizContent)
    /\ ~isGeneratingQuiz
    /\ BagCardinality(inflight) < MaxInFlight
    /\ isGeneratingQuiz' = TRUE
    /\ error' = ""
    /\ quizContent' = Null
    /\ inflight' = inflight (+) SetToBag({Request("quiz", "api", NoArg)})
    /\ UNCHANGED <<flowStep, subject, syllabus, topicSelection, contentType,
                   contentSource, uploadedPdf, sourceUrl, result,
                   groundingChunks, isLoading, isExtracting>>
    /\ UNCHANGED notSession

\* api.generateContent returns to the handleGenerateQuiz call req, with
\* what fetch got (lines 333-341)
QuizGenReturnsWith(req, http) ==
    /\ req \in BagToSet(inflight)
    /\ req.kind = "quiz" /\ req.stage = "api"
    /\ inflight' = inflight (-) SetToBag({req})
    /\ LET out == ApiGenerateContent(http)
           failed(message) ==
               /\ error' = "Failed to generate quiz: " \o message
               /\ quizContent' = quizContent
       IN  IF out.threw
           THEN failed(out.message)
           ELSE LET parsed == JsonParse(Trim(out.text))
                IN  IF parsed.ok
                    THEN quizContent' = parsed.value /\ error' = error
                    ELSE failed(parsed.message)
    /\ isGeneratingQuiz' = FALSE
    /\ UNCHANGED <<flowStep, subject, syllabus, topicSelection, contentType,
                   contentSource, uploadedPdf, sourceUrl, result,
                   groundingChunks, isLoading, isExtracting>>
    /\ UNCHANGED notSession

QuizGenOutcomes == HttpOutcomes({QuizJson, OtherJson, ProseText})

QuizGenReturns ==
    \E req \in BagToSet(inflight), http \in QuizGenOutcomes :
       QuizGenReturnsWith(req, http)

\* "Finish & Close Quiz" of the QuizRunner the result view shows for a quiz
FinishQuiz ==
    /\ ResultViewShown
    /\ Truthy(quizContent)
    /\ quizContent' = Null
    /\ UNCHANGED <<flowStep, subject, syllabus, topicSelection, contentType,
                   contentSource, uploadedPdf, sourceUrl, result,
                   groundingChunks, error, isLoading, isExtracting,
                   isGeneratingQuiz, inflight>>
    /\ UNCHANGED notSession

\* every action of the session but the three inputs of the content source
Next ==
    \/ ResetFlow
    \/ Back
    \/ ProfileNext
    \/ SetSubject
    \/ SyllabusUpload
    \/ SyllabusReturns
    \/ SyllabusNext
    \/ HandleUnitSelect
    \/ HandleTopicSelect
    \/ TopicNext
    \/ SetContentType
    \/ Generate
    \/ Regenerate
    \/ RefineWithFeedback
    \/ ChangeTopics
    \/ ChangeSubject
    \/ FileRead
    \/ FileReadFails
    \/ GenerateReturns

----------------------------------------------------------------------------
(* QuizRunner *)

\* the answer texts of the quizzes: the options of a choice question and
\* what is typed into a short-answer one
AnswerTexts == {"Paris", "paris"}

\* the UTF-16 code units of a text
CodeUnits(text) ==
    CASE text = "Paris" -> <<80, 97, 114, 105, 115>>
      [] text = "paris" -> <<112, 97, 114, 105, 115>>
      [] OTHER -> <<>>

RECURSIVE CodeUnitsLess(_, _)
CodeUnitsLess(x, y) ==
    IF x = <<>> THEN y # <<>>
    ELSE IF y = <<>> THEN FALSE
    ELSE IF Head(x) # Head(y) THEN Head(x) < Head(y)
    ELSE CodeUnitsLess(Tail(x), Tail(y))

\* a < b as Array.prototype.sort compares strings when it is given no
\* comparator: by code units
StringLess(a, b) == CodeUnitsLess(CodeUnits(a), CodeUnits(b))

RECURSIVE InsertSorted(_, _)
InsertSorted(x, sorted) ==
    IF sorted = <<>> THEN <<x>>
    ELSE IF StringLess(x, Head(sorted)) THEN <<x>> \o sorted
    ELSE <<Head(sorted)>> \o InsertSorted(x, Tail(sorted))

RECURSIVE SortedStrings(_)
SortedStrings(arr) ==
    IF arr = <<>> THEN <<>>
    ELSE InsertSorted(arr[Len(arr)], SortedStrings(SubSeq(arr, 1, Len(arr) - 1)))

\* a variant of sort() that leaves the array as it is
SortSkipped(arr) == arr

\* arr.sort(), the array it leaves and returns
Sort(arr) == SortedStrings(arr)

RECURSIVE JoinQuoted(_)
JoinQuoted(arr) ==
    IF arr = <<>> THEN ""
    ELSE IF Len(arr) = 1 THEN "\"" \o arr[1] \o "\""
    ELSE "\"" \o Head(arr) \o "\"," \o JoinQuoted(Tail(arr))

\* JSON.stringify of an array of texts without quotes or backslashes
JsonStringify(arr) == "[" \o JoinQuoted(arr) \o "]"

QuizTypes == {"mcq_single", "mcq_multiple", "subjective_short"}

\* the answer keys a question may come with: one text, two texts out of
\* order, one text twice
AnswerKeys ==
    {<<"Paris">>, <<"paris", "Paris">>, <<"Paris", "Paris">>}

Questions == [type : QuizTypes, answer : AnswerKeys]
Quizzes == UNION {[1..n -> Questions] : n \in 1..MaxQuestions}

\* userAnswers[i] || []
Given(answers, i) == IF i \in DOMAIN answers THEN answers[i] ELSE <<>>

\* JSON.stringify(correctAnswers) === JSON.stringify(givenAnswers)
IsCorrect(correctAnswers, givenAnswers) ==
    JsonStringify(correctAnswers) = JsonStringify(givenAnswers)

\* a variant of the loop that counts a failed question in the score too
RECURSIVE GradeCountsFailed(_, _, _)
GradeCountsFailed(questions, answers, n) ==
    IF n = 0 THEN [score |-> 0, incorrectQuestions |-> <<>>]
    ELSE LET before == GradeCountsFailed(questions, answers, n - 1)
             i == n - 1
             correctAnswers == Sort(questions[i + 1].answer)
             givenAnswers == Sort(Given(answers, i))
         IN  IF IsCorrect(correctAnswers, givenAnswers)
             THEN [before EXCEPT !.score = @ + 1]
             ELSE [before EXCEPT !.score = @ + 1,
                                 !.incorrectQuestions = Append(@, i)]

\* the loop of handleSubmit over questions 0 .. n-1: the score and the
\* indexes of the questions pushed to incorrectQuestions, in order
RECURSIVE Grade(_, _, _)
Grade(questions, answers, n) ==
    IF n = 0 THEN [score |-> 0, incorrectQuestions |-> <<>>]
    ELSE LET before == Grade(questions, answers, n - 1)
             i == n - 1
             correctAnswers == Sort(questions[i + 1].answer)
             givenAnswers == Sort(Given(answers, i))
         IN  IF IsCorrect(correctAnswers, givenAnswers)
             THEN [before EXCEPT !.score = @ + 1]
             ELSE [before EXCEPT !.incorrectQuestions = Append(@, i)]

\* the arrays handleSubmit leaves behind: sort() sorts in place
SortedQuiz(questions) ==
    [k \in 1..Len(questions) |->
        [questions[k] EXCEPT !.answer = Sort(@)]]
SortedAnswers(answers) ==
    [i \in DOMAIN answers |-> Sort(answers[i])]

FallbackSuggestions ==
    "Could not generate personalized suggestions at this time."
SuggestionsText == "## Personalized Study Suggestions"

QuizInit ==
    /\ quiz \in Quizzes
    /\ userAnswers = <<>>
    /\ submitted = FALSE
    /\ results = Null
    /\ personalizedSuggestions = ""
    /\ isLoadingSuggestions = FALSE
    /\ suggestionsCall = "none"
    /\ ai \in {"ReferenceError", "object"}

\* the quiz form is shown until the results are
QuizFormShown == ~(submitted /\ results # Null)

AnswerChanged(answers, questionIndex, answer, isMultiChoice) ==
    LET currentAnswers == Given(answers, questionIndex)
        changed ==
            IF isMultiChoice
            THEN IF Includes(currentAnswers, answer)
                 THEN FilterOut(currentAnswers, answer)
                 ELSE Append(currentAnswers, answer)
            ELSE <<answer>>
    IN  [i \in DOMAIN answers \cup {questionIndex} |->
            IF i = questionIndex THEN changed ELSE answers[i]]

\* a radio button, a checkbox or the text input of question questionIndex
HandleAnswerChange ==
    /\ QuizFormShown
    /\ \E questionIndex \in 0..(Len(quiz) - 1), answer \in AnswerTexts :
          userAnswers' =
              AnswerChanged(userAnswers, questionIndex, answer,
                            quiz[questionIndex + 1].type = "mcq_multiple")
    /\ UNCHANGED <<quiz, submitted, results, personalizedSuggestions,
                   isLoadingSuggestions, suggestionsCall, ai>>
    /\ UNCHANGED notQuiz

\* "Grade My Quiz": handleSubmit up to its await. Line 903 reads "ai", which
\* QuizRunner does not declare: it throws there unless the page has a global
\* of that name
HandleSubmit ==
    /\ QuizFormShown
    /\ LET graded == Grade(quiz, userAnswers, Len(quiz))
       IN  /\ results' = graded
           /\ submitted' = TRUE
           /\ quiz' = SortedQuiz(quiz)
           /\ userAnswers' = SortedAnswers(userAnswers)
           /\ IF Len(graded.incorrectQuestions) > 0 /\ ai = "object"
              THEN isLoadingSuggestions' = TRUE /\ suggestionsCall' = "pending"
              ELSE UNCHANGED <<isLoadingSuggestions, suggestionsCall>>
    /\ UNCHANGED <<personalizedSuggestions, ai>>
    /\ UNCHANGED notQuiz

\* a variant whose failure leaves the spinner up and no message
SuggestionsFailedSilently ==
    /\ personalizedSuggestions' = personalizedSuggestions
    /\ isLoadingSuggestions' = isLoadingSuggestions

\* the catch and finally blocks of the remediation call (lines 911-915)
SuggestionsFailed ==
    /\ personalizedSuggestions' = FallbackSuggestions
    /\ isLoadingSuggestions' = FALSE

\* api.generateContent returns to handleSubmit with what fetch got
\* (lines 909-915)
SuggestionsReturnWith(http) ==
    /\ suggestionsCall = "pending"
    /\ LET out == ApiGenerateContent(http)
       IN  IF out.threw
           THEN SuggestionsFailed
           ELSE /\ personalizedSuggestions' = out.text
                /\ isLoadingSuggestions' = FALSE
    /\ suggestionsCall' = "none"
    /\ UNCHANGED <<quiz, userAnswers, submitted, results, ai>>
    /\ UNCHANGED notQuiz

SuggestionsOutcomes == HttpOutcomes({SuggestionsText})

SuggestionsReturn ==
    \E http \in SuggestionsOutcomes : SuggestionsReturnWith(http)

NextQuiz ==
    \/ HandleAnswerChange
    \/ HandleSubmit
    \/ SuggestionsReturn

----------------------------------------------------------------------------
(* FormattedContent *)

\* A line is the sequence of its characters; the markup formatLine inserts
\* is one element each, so that it is told from characters of the input.

\* the grave accent, which a string of the module cannot hold
GraveAccent == "grave"
Fence == <<GraveAccent, GraveAccent, GraveAccent>>
Whitespace == {" "}
Digits == {"0", "1", "2", "3", "4", "5", "6", "7", "8", "9"}

\* the lines the contents are made of:
\*   (fence)  # h      ### h      * a      - <i>      1. b
\*   (empty)  **b** *c*      <i>
ContentLines ==
    { Fence,
      <<"#", " ", "h">>,
      <<"#", "#", "#", " ", "h">>,
      <<"*", " ", "a">>,
      <<"-", " ", "<", "i", ">">>,
      <<"1", ".", " ", "b">>,
      <<>>,
      <<"*", "*", "b", "*", "*", " ", "*", "c", "*">>,
      <<"<", "i", ">">> }

\* content.split('\n')
Contents == UNION {[1..n -> ContentLines] : n \in 1..MaxLines}

RECURSIVE TrimStart(_)
TrimStart(line) ==
    IF line # <<>> /\ Head(line) \in Whitespace
    THEN TrimStart(Tail(line)) ELSE line

RECURSIVE TrimEnd(_)
TrimEnd(line) ==
    IF line # <<>> /\ line[Len(line)] \in Whitespace
    THEN TrimEnd(SubSeq(line, 1, Len(line) - 1)) ELSE line

\* line.trim()
TrimLine(line) == TrimEnd(TrimStart(line))

StartsWith(line, prefix) ==
    Len(line) >= Len(prefix) /\ SubSeq(line, 1, Len(prefix)) = prefix

\* line.substring(n)
Substring(line, n) == SubSeq(line, n + 1, Len(line))

\* the least position >= from at which pattern occurs in line, or 0
IndexOf(line, pattern, from) ==
    LET at == {i \in from..(Len(line) - Len(pattern) + 1) :
                  SubSeq(line, i, i + Len(pattern) - 1) = pattern}
    IN  IF at = {} THEN 0 ELSE CHOOSE i \in at : \A j \in at : i <= j

\* line.replace(/<d>(.*?)<d>/g, open $1 close) for a delimiter d
RECURSIVE ReplaceDelimited(_, _, _, _)
ReplaceDelimited(line, delimiter, open, close) ==
    LET i == IndexOf(line, delimiter, 1)
        j == IF i = 0 THEN 0 ELSE IndexOf(line, delimiter, i + Len(delimiter))
    IN  IF j = 0 THEN line
        ELSE SubSeq(line, 1, i - 1) \o <<open>>
                 \o SubSeq(line, i + Len(delimiter), j - 1) \o <<close>>
                 \o ReplaceDelimited(Substring(line, j + Len(delimiter) - 1),
                                     delimiter, open, close)

\* formatLine: the markup handed to dangerouslySetInnerHTML
FormatLine(line) ==
    ReplaceDelimited(
        ReplaceDelimited(line, <<"*", "*">>, "<strong>", "</strong>"),
        <<"*">>, "<em>", "</em>")

RECURSIVE LeadingDigits(_)
LeadingDigits(line) ==
    IF line # <<>> /\ Head(line) \in Digits
    THEN 1 + LeadingDigits(Tail(line)) ELSE 0

\* the length of what /^\d+\.\s/ matches at the start of line, or 0
OrderedMarker(line) ==
    LET d == LeadingDigits(line)
    IN  IF d >= 1 /\ Len(line) >= d + 2 /\ line[d + 1] = "."
             /\ line[d + 2] \in Whitespace
        THEN d + 2 ELSE 0

\* the locals of the useMemo callback
Locals ==
    [elements |-> elements, listType |-> listType, listItems |-> listItems,
     isCodeBlock |-> isCodeBlock, codeContent |-> codeContent]

NoList == "null"

CloseList(st) ==
    IF st.listType # NoList /\ Len(st.listItems) > 0
    THEN [st EXCEPT
            !.elements = Append(@, [tag |-> st.listType,
                                    items |-> [i \in 1..Len(st.listItems) |->
                                                  FormatLine(st.listItems[i])]]),
            !.listItems = <<>>,
            !.listType = NoList]
    ELSE st

CloseCodeBlock(st) ==
    IF st.isCodeBlock
    THEN [st EXCEPT
            !.elements = Append(@, [tag |-> "pre", code |-> st.codeContent]),
            !.codeContent = <<>>,
            !.isCodeBlock = FALSE]
    ELSE st

\* a line that starts with the fence once trimmed (lines 737-745)
FenceLine(st) ==
    IF st.isCodeBlock THEN CloseCodeBlock(st)
    ELSE [CloseList(st) EXCEPT !.isCodeBlock = TRUE]

Heading(st, tag, text) ==
    [CloseList(st) EXCEPT !.elements = Append(@, [tag |-> tag, text |-> text])]

ListItem(st, tag, item) ==
    LET closed == IF st.listType # tag THEN CloseList(st) ELSE st
    IN  [closed EXCEPT !.listType = tag, !.listItems = Append(@, item)]

\* a variant in which an empty line closes the open list
BlockLineFlushing(st, line) ==
    LET trimmedLine == TrimLine(line)
    IN  IF StartsWith(trimmedLine, <<"#", "#", "#", " ">>)
        THEN Heading(st, "h3", Substring(trimmedLine, 4))
        ELSE IF StartsWith(trimmedLine, <<"#", "#", " ">>)
        THEN Heading(st, "h2", Substring(trimmedLine, 3))
        ELSE IF StartsWith(trimmedLine, <<"#", " ">>)
        THEN Heading(st, "h1", Substring(trimmedLine, 2))
        ELSE IF StartsWith(trimmedLine, <<"*", " ">>)
                \/ StartsWith(trimmedLine, <<"-", " ">>)
        THEN ListItem(st, "ul", Substring(trimmedLine, 2))
        ELSE IF OrderedMarker(trimmedLine) > 0
        THEN ListItem(st, "ol",
                      Substring(trimmedLine, OrderedMarker(trimmedLine)))
        ELSE IF trimmedLine # <<>>
        THEN [CloseList(st) EXCEPT
                !.elements = Append(@, [tag |-> "p", html |-> FormatLine(line)])]
        ELSE CloseList(st)

\* a line outside a code block (lines 751-766)
BlockLine(st, line) ==
    LET trimmedLine == TrimLine(line)
    IN  IF StartsWith(trimmedLine, <<"#", "#", "#", " ">>)
        THEN Heading(st, "h3", Substring(trimmedLine, 4))
        ELSE IF StartsWith(trimmedLine, <<"#", "#", " ">>)
        THEN Heading(st, "h2", Substring(trimmedLine, 3))
        ELSE IF StartsWith(trimmedLine, <<"#", " ">>)
        THEN Heading(st, "h1", Substring(trimmedLine, 2))
        ELSE IF StartsWith(trimmedLine, <<"*", " ">>)
                \/ StartsWith(trimmedLine, <<"-", " ">>)
        THEN ListItem(st, "ul", Substring(trimmedLine, 2))
        ELSE IF OrderedMarker(trimmedLine) > 0
        THEN ListItem(st, "ol",
                      Substring(trimmedLine, OrderedMarker(trimmedLine)))
        ELSE IF trimmedLine # <<>>
        THEN [CloseList(st) EXCEPT
                !.elements = Append(@, [tag |-> "p", html |-> FormatLine(line)])]
        ELSE st

\* a variant that matches blocks inside a code block too
CodeLineMatched(st, line) == BlockLine(st, line)

\* a line inside a code block (lines 746-749)
CodeLine(st, line) ==
    [st EXCEPT !.codeContent = @ \o line \o <<"\n">>]

RenderInit ==
    /\ lines \in Contents
    /\ lineIndex = 0
    /\ elements = <<>>
    /\ listType = NoList
    /\ listItems = <<>>
    /\ isCodeBlock = FALSE
    /\ codeContent = <<>>
    /\ formatted = Null

\* the line forEach is at
CurrentLine == lines[lineIndex + 1]
IsFence(line) == StartsWith(TrimLine(line), Fence)
InLoop == formatted = Null /\ lineIndex < Len(lines)

SetLocals(st) ==
    /\ elements' = st.elements
    /\ listType' = st.listType
    /\ listItems' = st.listItems
    /\ isCodeBlock' = st.isCodeBlock
    /\ codeContent' = st.codeContent

RenderFenceLine ==
    /\ InLoop /\ IsFence(CurrentLine)
    /\ SetLocals(FenceLine(Locals))
    /\ lineIndex' = lineIndex + 1
    /\ UNCHANGED <<lines, formatted>>
    /\ UNCHANGED notRender

RenderCodeLine ==
    /\ InLoop /\ ~IsFence(CurrentLine) /\ isCodeBlock
    /\ SetLocals(CodeLine(Locals, CurrentLine))
    /\ lineIndex' = lineIndex + 1
    /\ UNCHANGED <<lines, formatted>>
    /\ UNCHANGED notRender

RenderBlockLine ==
    /\ InLoop /\ ~IsFence(CurrentLine) /\ ~isCodeBlock
    /\ SetLocals(BlockLine(Locals, CurrentLine))
    /\ lineIndex' = lineIndex + 1
    /\ UNCHANGED <<lines, formatted>>
    /\ UNCHANGED notRender

\* a variant that returns elements without closing the list or the code block
RenderEndUnflushed ==
    /\ formatted = Null /\ lineIndex = Len(lines)
    /\ formatted' = Arr(elements)
    /\ UNCHANGED <<lines, lineIndex, elements, listType, listItems,
                   isCodeBlock, codeContent>>
    /\ UNCHANGED notRender

\* after the loop: closeList(); closeCodeBlock(); return elements
RenderEnd ==
    /\ formatted = Null /\ lineIndex = Len(lines)
    /\ LET st == CloseCodeBlock(CloseList(Locals))
       IN  SetLocals(st) /\ formatted' = Arr(st.elements)
    /\ UNCHANGED <<lines, lineIndex>>
    /\ UNCHANGED notRender

NextRender ==
    \/ RenderFenceLine
    \/ RenderCodeLine
    \/ RenderBlockLine
    \/ RenderEnd

----------------------------------------------------------------------------
(* Specifications *)

FlashIdle ==
    /\ flashcards = <<>>
    /\ testState = InitialTestState
    /\ currentCardIndex = 0
    /\ isFlipped = FALSE
    /\ lastReviewed = Undefined

RenderIdle ==
    /\ lines = <<>>
    /\ lineIndex = 0
    /\ elements = <<>>
    /\ listType = NoList
    /\ listItems = <<>>
    /\ isCodeBlock = FALSE
    /\ codeContent = <<>>
    /\ formatted = Null

QuizIdle ==
    /\ quiz = <<>>
    /\ userAnswers = <<>>
    /\ submitted = FALSE
    /\ results = Null
    /\ personalizedSuggestions = ""
    /\ isLoadingSuggestions = FALSE
    /\ suggestionsCall = "none"
    /\ ai = "ReferenceError"

\* the learning-flow session of a user who leaves the content source at its
\* default, AI knowledge
Init == SessionInit /\ FlashIdle /\ QuizIdle /\ RenderIdle
Spec == Init /\ [][Next]_vars

\* the same session with the content source, the PDF and the URL chosen too
NextSource ==
    \/ Next
    \/ SetContentSource
    \/ SetUploadedPdf
    \/ SetSourceUrl
SpecSource == Init /\ [][NextSource]_vars

\* the steps up to the topic selection, on a syllabus already extracted
InitTopic ==
    /\ flowStep = "syllabus"
    /\ subject = "Biology"
    /\ syllabus = TopicSyllabus
    /\ topicSelection = EmptySelection
    /\ contentType = "In-depth Explanation"
    /\ contentSource = "ai_knowledge"
    /\ uploadedPdf = NoFile
    /\ sourceUrl = ""
    /\ result = Null
    /\ groundingChunks = Null
    /\ quizContent = Null
    /\ error = ""
    /\ isLoading = FALSE
    /\ isExtracting = FALSE
    /\ isGeneratingQuiz = FALSE
    /\ inflight = EmptyBag
    /\ FlashIdle /\ QuizIdle /\ RenderIdle
NextTopic ==
    \/ Back
    \/ ProfileNext
    \/ SetSubject
    \/ SyllabusNext
    \/ HandleUnitSelect
    \/ HandleTopicSelect
    \/ TopicNext
SpecTopic == InitTopic /\ [][NextTopic]_vars

\* the result view after a first generation, with its quiz generator
InitResult ==
    /\ flowStep = "result"
    /\ subject = "Biology"
    /\ syllabus = SessionSyllabus
    /\ topicSelection = [unit |-> "Unit 1", topics |-> <<>>]
    /\ \/ contentType = "In-depth Explanation" /\ result = Str(ProseText)
       \/ contentType = "Flashcards" /\ result = SessionDeck
    /\ contentSource = "ai_knowledge"
    /\ uploadedPdf = NoFile
    /\ sourceUrl = ""
    /\ groundingChunks \in GroundingValues
    /\ quizContent = Null
    /\ error = ""
    /\ isLoading = FALSE
    /\ isExtracting = FALSE
    /\ isGeneratingQuiz = FALSE
    /\ inflight = EmptyBag
    /\ FlashIdle
    /\ QuizIdle
    /\ RenderIdle

NextResult ==
    \/ HandleGenerateQuiz
    \/ QuizGenReturns
    \/ FinishQuiz
    \/ Regenerate
    \/ RefineWithFeedback
    \/ GenerateReturns
    \/ ChangeTopics
    \/ ResetFlow

SpecResult == InitResult /\ [][NextResult]_vars

\* the quiz runner on a quiz
InitQuiz == QuizInit /\ SessionInit /\ FlashIdle /\ RenderIdle
SpecQuiz == InitQuiz /\ [][NextQuiz]_vars

\* the flashcard view on a deck
InitFlash == FlashInit /\ SessionInit /\ QuizIdle /\ RenderIdle
SpecFlash == InitFlash /\ [][NextFlash]_vars

\* FlashcardView under a result that feedback refines
NextBrowse ==
    \/ StartTest
    \/ FlipCard
    \/ PreviousCard
    \/ NextCard
    \/ ShowAnswer
    \/ MarkKnown
    \/ MarkNeedsReview
    \/ BackToFlashcards
    \/ DeckRefined
SpecBrowse == InitFlash /\ [][NextBrowse]_vars

\* the test with a user who, shown a card, reveals its answer, and who does
\* not press "Needs Review" for ever when "I Knew It!" is offered again
\* and again
SpecFlashFair ==
    /\ InitFlash /\ [][NextFlash]_vars
    /\ WF_vars(ShowAnswer)
    /\ SF_vars(MarkKnown)

\* the renderer on a content
InitRender == RenderInit /\ SessionInit /\ FlashIdle /\ QuizIdle
SpecRender == InitRender /\ [][NextRender]_vars

----------------------------------------------------------------------------
(* Flashcard test: the cards of a running test *)

Occurrences(arr, x) == Cardinality({i \in 1..Len(arr) : arr[i] = x})

\* C1: in a running flashcard test on a deck of N cards, the number of
\* cards still to test plus the number of mastered cards is N, after
\* every reveal, "I Knew It!" and "Needs Review", whatever the shuffle
\* and the random draws were.
C1_CardCountConstant ==
    testState.active =>
        Len(testState.cardsToTest) + Len(testState.masteredCards)
            = Len(flashcards)

\* a 4-card test in which one card was mastered and the next answer is
\* revealed
C1_Witness ==
    /\ testState.active
    /\ Len(flashcards) = 4
    /\ Len(testState.masteredCards) = 1
    /\ Len(testState.cardsToTest) = 3
    /\ testState.showAnswer

\* C2: in a running flashcard test every card of the deck occurs exactly
\* once in cardsToTest and masteredCards taken together, and nothing else
\* occurs in them: together they are a reordering of the deck.
C2_CardsPartitionDeck ==
    testState.active =>
        /\ \A c \in Range(flashcards) :
              Occurrences(testState.cardsToTest, c)
                  + Occurrences(testState.masteredCards, c) = 1
        /\ Range(testState.cardsToTest) \cup Range(testState.masteredCards)
              \subseteq Range(flashcards)
        /\ (testState.cardsToTest \o testState.masteredCards)
              \in Reorderings(flashcards)

\* a test in which two cards were mastered, in another order than the
\* deck's, and two are left
C2_Witness ==
    /\ testState.active
    /\ Len(testState.masteredCards) = 2
    /\ testState.masteredCards[1] > testState.masteredCards[2]
    /\ Len(testState.cardsToTest) = 2
    /\ testState.cardsToTest[1] > testState.cardsToTest[2]

----------------------------------------------------------------------------
(* Topic selection *)

\* C3: a unit and topics are never selected together; selecting a unit
\* (handleUnitSelect, whatever the unit) leaves no topic selected, and
\* selecting a topic (handleTopicSelect, whatever the topic) leaves no
\* unit selected.
C3_UnitAndTopicsExclusive ==
    /\ ~(topicSelection.unit # NoUnit /\ Len(topicSelection.topics) > 0)
    /\ Truthy(syllabus) =>
         /\ \A unitName \in UnitsOf(syllabus) :
               UnitSelected(topicSelection, unitName).topics = <<>>
         /\ \A topicName \in TopicsOf(syllabus) :
               TopicSelected(topicSelection, topicName).unit = NoUnit

\* the topic step with a unit selected: no topic is
C3_Witness ==
    /\ flowStep = "topic"
    /\ topicSelection = [unit |-> "Unit 2", topics |-> <<>>]

\* C4: at most 3 topics are ever selected, and handleTopicSelect called
\* with a topic that is not selected while 3 are leaves the selection,
\* unit and topics, as it was.
C4_AtMostThreeTopics ==
    /\ Len(topicSelection.topics) <= 3
    /\ (Truthy(syllabus) /\ Len(topicSelection.topics) = 3) =>
          \A topicName \in TopicsOf(syllabus) :
             ~Includes(topicSelection.topics, topicName) =>
                 TopicSelected(topicSelection, topicName) = topicSelection

\* three topics are selected and the syllabus has a fourth to click
C4_Witness ==
    /\ flowStep = "topic"
    /\ Len(topicSelection.topics) = 3
    /\ \E topicName \in TopicsOf(syllabus) :
          ~Includes(topicSelection.topics, topicName)

----------------------------------------------------------------------------
(* Quiz grading *)

\* the quizzes that differ from the first k questions only in the order of
\* the answer keys
RECURSIVE ReorderedPrefix(_, _)
ReorderedPrefix(questions, k) ==
    IF k = 0 THEN {<<>>}
    ELSE {Append(prefix, [questions[k] EXCEPT !.answer = key]) :
             prefix \in ReorderedPrefix(questions, k - 1),
             key \in Reorderings(questions[k].answer)}

ReorderedQuizzes(questions) == ReorderedPrefix(questions, Len(questions))

\* the user answers that differ from answers only in the order of the
\* arrays of the questions in indexes
RECURSIVE ReorderedOver(_, _)
ReorderedOver(answers, indexes) ==
    IF indexes = {} THEN {<<>>}
    ELSE LET i == CHOOSE j \in indexes : TRUE
         IN  {(i :> given) @@ others :
                 others \in ReorderedOver(answers, indexes \ {i}),
                 given \in Reorderings(answers[i])}

ReorderedAnswers(answers) == ReorderedOver(answers, DOMAIN answers)

\* C5: grading does not depend on the order of the arrays: reordering the
\* user's answers to a question, or the canonical answers of a question,
\* changes neither the score nor the list of incorrect questions, and the
\* graded quiz carries the results of every such reordering.
C5_GradingOrderIndependent ==
    LET n == Len(quiz)
        graded == Grade(quiz, userAnswers, n)
    IN  \A questions \in ReorderedQuizzes(quiz),
           answers \in ReorderedAnswers(userAnswers) :
            /\ Grade(questions, answers, n) = graded
            /\ (submitted /\ n > 0) => results = Grade(questions, answers, n)

\* a quiz was graded whose answer key came as "paris", "Paris" and whose
\* user gave both: the key is now in sorted order and the question counted
C5_Witness ==
    /\ submitted
    /\ Len(quiz) = 1
    /\ quiz[1].answer = <<"Paris", "paris">>
    /\ Len(Given(userAnswers, 0)) = 2
    /\ results = [score |-> 1, incorrectQuestions |-> <<>>]

SameSet(a, b) == Range(a) = Range(b)

\* C6: in a graded quiz a question is counted correct exactly when the set
\* of the user's answers equals the set of its canonical answers, texts
\* compared exactly (case matters); the score is the number of such
\* questions and every other question is in the incorrect list, with no
\* partial credit.
C6_CorrectIffSetEquality ==
    (submitted /\ results # Null) =>
        LET n == Len(quiz)
            equal == {i \in 0..(n - 1) :
                         SameSet(quiz[i + 1].answer, Given(userAnswers, i))}
        IN  /\ results.score = Cardinality(equal)
            /\ Range(results.incorrectQuestions) = (0..(n - 1)) \ equal

----------------------------------------------------------------------------
(* Generation requests *)

\* the handleGenerateContent calls waiting for api.generateContent
PendingGenerations ==
    LET waiting == {req \in BagToSet(inflight) :
                       req.kind = "generate" /\ req.stage = "api"}
    IN  BagCardinality([req \in waiting |-> inflight[req]])

\* a step in which a handleGenerateContent call reaches api.generateContent
SendsGeneration ==
    \E req \in BagToSet(inflight') :
       /\ req.kind = "generate" /\ req.stage = "api"
       /\ IF req \in BagToSet(inflight)
          THEN inflight'[req] > inflight[req]
          ELSE TRUE

\* C7: at most one handleGenerateContent call is waiting for
\* api.generateContent at any time.
C7_OneGenerationInFlight == PendingGenerations <= 1

\* C8: when api.generateContent returns to a handleGenerateContent call
\* while the step shown is no longer the step the call was made from, the
\* response changes none of result, groundingChunks, contentType,
\* quizContent and flowStep.
C8_StaleResponseDiscarded ==
    [][\A req \in BagToSet(inflight), http \in GenerateOutcomes :
          (req.origin # flowStep /\ GenerateReturnsWith(req, http)) =>
              UNCHANGED <<result, groundingChunks, contentType,
                          quizContent, flowStep>>]_vars

\* C9: no handleGenerateContent call reaches api.generateContent while the
\* subject is blank or neither a unit nor a topic is selected.
C9_NoRequestWithoutSubjectAndTopic ==
    [][SendsGeneration =>
          (Trim(subject) # "" /\ ~IsNextDisabled(topicSelection))]_vars

\* C10: when api.generateContent throws (the server answered non-OK, or
\* fetch threw), the handleGenerateContent call ends with a non-empty
\* error shown in the error box with its Start Over button, isLoading
\* false, result, groundingChunks and contentType as they were, the step
\* not advanced, and no call made in its place.
C10_FailureAborts ==
    [][\A req \in BagToSet(inflight), http \in GenerateOutcomes :
          (ApiGenerateContent(http).threw /\ GenerateReturnsWith(req, http)) =>
              /\ error' # ""
              /\ ErrorShown'
              /\ isLoading' = FALSE
              /\ UNCHANGED <<result, groundingChunks, contentType, flowStep>>
              /\ BagCardinality(inflight') = BagCardinality(inflight) - 1]_vars

\* the server answered non-OK to the Generate button's call: its message is
\* shown at the generate step, with nothing loading and no result
C10_Witness ==
    /\ error = "An error occurred: API request failed: Internal Server Error"
    /\ flowStep = "generate"
    /\ isLoading = FALSE
    /\ result = Null
    /\ inflight = EmptyBag

----------------------------------------------------------------------------
(* Syllabus extraction *)

\* the call of api.generateContent throws, or JSON.parse of its text does
ExtractionFails(http) ==
    LET out == ApiGenerateContent(http)
    IN  out.threw \/ ~JsonParse(Trim(out.text)).ok

\* C11: a syllabus extraction that fails (the call or the parse throws)
\* leaves the syllabus extracted earlier, the subject and the topic
\* selection as they were; only the error message and isExtracting change.
C11_FailedExtractionKeepsState ==
    [][\A req \in BagToSet(inflight), http \in SyllabusOutcomes :
          (ExtractionFails(http) /\ SyllabusReturnsWith(req, http)) =>
              UNCHANGED <<syllabus, subject, topicSelection, flowStep,
                          contentType, result, quizContent, isLoading>>]_vars

----------------------------------------------------------------------------
(* Quiz remediation *)

\* handleSubmit runs in this step
Grades == ~submitted /\ submitted'

\* C12: when a quiz is graded, a request for personalized suggestions is
\* sent to the generation backend if and only if the list of incorrect
\* questions is not empty.
C12_RemediationIffIncorrect ==
    [][Grades =>
          (suggestionsCall' = "pending" <=>
              Len(results'.incorrectQuestions) > 0)]_vars

\* C13: the score and the incorrect list that handleSubmit recorded are
\* not changed by the remediation call, whether it succeeds, fails or never
\* returns: results stays as computed and submitted stays true; when the
\* call fails the suggestions become the fixed fallback message and
\* isLoadingSuggestions goes back to false.
C13_RemediationKeepsResults ==
    [][/\ submitted => (submitted' /\ results' = results)
       /\ \A http \in SuggestionsOutcomes :
             (ApiGenerateContent(http).threw /\ SuggestionsReturnWith(http)) =>
                 /\ personalizedSuggestions' = FallbackSuggestions
                 /\ isLoadingSuggestions' = FALSE]_vars

\* the remediation call of a graded quiz with one question wrong failed:
\* the fallback message is shown beside the score
C13_Witness ==
    /\ submitted
    /\ results = [score |-> 0, incorrectQuestions |-> <<0>>]
    /\ personalizedSuggestions = FallbackSuggestions
    /\ isLoadingSuggestions = FALSE
    /\ suggestionsCall = "none"

----------------------------------------------------------------------------
(* Flashcard test: where "Needs Review" puts the card *)

\* the 0-based index of card in cards, which holds it once
PositionOf(cards, card) ==
    CHOOSE i \in 0..(Len(cards) - 1) : cards[i + 1] = card

\* cards without the element at 0-based index i
Without(cards, i) ==
    [k \in 1..(Len(cards) - 1) |-> IF k <= i THEN cards[k] ELSE cards[k + 1]]

\* "Needs Review" is pressed in this step
MarksNeedsReview == lastReviewed' # Undefined

\* C14 as stated: "Needs Review" takes the current card out of the cards to
\* test and puts it back at an index i with len/2 <= i < len, len being the
\* number of cards left after taking it out, for every draw and deck size;
\* it is never put at the end and the other cards keep their order.
C14_ReinsertedInLaterHalf ==
    [][MarksNeedsReview =>
          LET rest == Without(testState.cardsToTest, testState.currentIndex)
              len == Len(rest)
              i == PositionOf(testState.cardsToTest', lastReviewed')
          IN  /\ len \div 2 <= i
              /\ i < len
              /\ Without(testState.cardsToTest', i) = rest]_vars

\* C14: "Needs Review" takes the current card out of the cards to test and
\* puts it back at an index i with floor(len / 2) <= i < len when another
\* card is left (len >= 1), and at index 0 as the only card when none is
\* (len = 0), for every draw and deck size; when another card is left it
\* is never put at the end, and the other cards keep their order.
C14_ReinsertedInLaterHalfIfOthers ==
    [][MarksNeedsReview =>
          LET rest == Without(testState.cardsToTest, testState.currentIndex)
              len == Len(rest)
              i == PositionOf(testState.cardsToTest', lastReviewed')
          IN  /\ lastReviewed' = testState.cardsToTest[testState.currentIndex + 1]
              /\ len >= 1 => (len \div 2 <= i /\ i < len)
              /\ len = 0 => i = 0
              /\ Len(testState.cardsToTest') = len + 1
              /\ Without(testState.cardsToTest', i) = rest]_vars

\* "Needs Review" has just moved a card of four to the last index but one:
\* three others were left, and the largest draw put it at index 2
C14_Witness ==
    /\ testState.active
    /\ lastReviewed # Undefined
    /\ Len(testState.cardsToTest) = 4
    /\ testState.cardsToTest[3] = lastReviewed

\* C15: after "Needs Review" the card is still among the cards to test,
\* and whenever another card is to test as well (two cards included) the
\* card presented next is not the one just marked.
C15_ReviewedCardNotNext ==
    (testState.active /\ lastReviewed # Undefined) =>
        /\ Occurrences(testState.cardsToTest, lastReviewed) = 1
        /\ Len(testState.cardsToTest) >= 2 =>
              At(testState.cardsToTest, testState.currentIndex) # lastReviewed

----------------------------------------------------------------------------
(* Flashcard test: completion *)

\* C16: a running test shows its completion exactly when no card is left
\* to test, and then the mastered cards are all N cards of the deck; from
\* the completion nothing can be revealed or marked: the only step is
\* "Back to Flashcards", which ends the test and returns to browsing.
C16_CompletionWhenAllMastered ==
    [][/\ CompletionShown' <=> (testState'.active /\ ~TestCardShown')
       /\ CompletionShown' =>
             /\ Len(testState'.masteredCards) = Len(flashcards')
             /\ \A card \in Range(flashcards') :
                   Occurrences(testState'.masteredCards, card) = 1
       /\ CompletionShown =>
             /\ ~testState'.active
             /\ testState' = [testState EXCEPT !.active = FALSE]
             /\ UNCHANGED <<flashcards, currentCardIndex, isFlipped>>]_vars

\* a test of three cards is complete: none is left and all three are
\* mastered
C16_Witness ==
    /\ CompletionShown
    /\ Len(flashcards) = 3
    /\ Len(testState.masteredCards) = 3

----------------------------------------------------------------------------
(* Structured responses *)

IsString(v) == v.type = "string"
IsFlashcardArray(v) ==
    v.type = "array" /\ \A i \in 1..Len(v.items) : v.items[i] \in 1..MaxDeck
IsSyllabusArray(v) ==
    /\ v.type = "array"
    /\ \A i \in 1..Len(v.items) : DOMAIN v.items[i] = {"unit", "topics"}
IsQuizObject(v) ==
    /\ v.type = "object"
    /\ DOMAIN v = {"type", "title", "questions", "swotAnalysis"}

\* C17: a structured response that is not of the shape asked for is never
\* stored: result is only ever a text or an array of flashcards,
\* quizContent only ever a {title, questions, swotAnalysis} object,
\* syllabus only ever an array of {unit, topics}.
C17_OnlyExpectedShapesStored ==
    /\ result = Null \/ IsString(result) \/ IsFlashcardArray(result)
    /\ quizContent = Null \/ IsQuizObject(quizContent)
    /\ syllabus = Null \/ IsSyllabusArray(syllabus)

----------------------------------------------------------------------------
(* The renderer *)

\* the fenced regions of ls, each the lines between an opening fence line
\* and its closing one (or the end), inside telling whether a fence is open
\* and buffer holding the lines since it opened
RECURSIVE FencedRegions(_, _, _)
FencedRegions(ls, inside, buffer) ==
    IF ls = <<>> THEN (IF inside THEN <<buffer>> ELSE <<>>)
    ELSE IF IsFence(Head(ls))
    THEN IF inside
         THEN <<buffer>> \o FencedRegions(Tail(ls), FALSE, <<>>)
         ELSE FencedRegions(Tail(ls), TRUE, <<>>)
    ELSE IF inside
    THEN FencedRegions(Tail(ls), TRUE, Append(buffer, Head(ls)))
    ELSE FencedRegions(Tail(ls), FALSE, <<>>)

\* the lines of ls outside every fenced region, fence lines left out
RECURSIVE OutsideLines(_, _)
OutsideLines(ls, inside) ==
    IF ls = <<>> THEN <<>>
    ELSE IF IsFence(Head(ls)) THEN OutsideLines(Tail(ls), ~inside)
    ELSE IF inside THEN OutsideLines(Tail(ls), inside)
    ELSE <<Head(ls)>> \o OutsideLines(Tail(ls), inside)

\* the lines of a region, each followed by a line feed
RECURSIVE Verbatim(_)
Verbatim(region) ==
    IF region = <<>> THEN <<>>
    ELSE Head(region) \o <<"\n">> \o Verbatim(Tail(region))

RECURSIVE WithTag(_, _)
WithTag(blocks, isWanted) ==
    IF blocks = <<>> THEN <<>>
    ELSE IF isWanted[Head(blocks).tag]
    THEN <<Head(blocks)>> \o WithTag(Tail(blocks), isWanted)
    ELSE WithTag(Tail(blocks), isWanted)

BlockTags == {"h1", "h2", "h3", "ul", "ol", "p", "pre"}
CodeBlocks(blocks) == WithTag(blocks, [t \in BlockTags |-> t = "pre"])
OtherBlocks(blocks) == WithTag(blocks, [t \in BlockTags |-> t # "pre"])

\* C18: a line between an opening and a closing fence line is appended
\* verbatim to the code buffer and makes no heading, list or paragraph,
\* whatever it starts with; each fenced region comes out as exactly one
\* code block holding its lines in order, and only the lines outside the
\* regions make other blocks.
C18_FencedLinesVerbatim ==
    [][/\ (InLoop /\ isCodeBlock /\ ~IsFence(CurrentLine)) =>
             /\ codeContent' = codeContent \o CurrentLine \o <<"\n">>
             /\ UNCHANGED <<elements, listType, listItems, isCodeBlock>>
       /\ formatted' # Null =>
             LET regions == FencedRegions(lines, FALSE, <<>>)
                 blocks == formatted'.items
             IN  /\ CodeBlocks(blocks) =
                       [r \in 1..Len(regions) |->
                           [tag |-> "pre", code |-> Verbatim(regions[r])]]
                 /\ Len(OtherBlocks(blocks))
                       <= Len(OutsideLines(lines, FALSE))]_vars

\* a fence around "# h" was rendered: one code block, no heading
C18_Witness ==
    /\ lines = <<Fence, <<"#", " ", "h">>, Fence>>
    /\ formatted = Arr(<<[tag |-> "pre", code |-> <<"#", " ", "h", "\n">>]>>)

MarkupCharacters == {"<", ">", "&"}

\* the markup of the paragraphs and list items of blocks
RECURSIVE InlineMarkup(_)
InlineMarkup(blocks) ==
    IF blocks = <<>> THEN <<>>
    ELSE LET block == Head(blocks)
         IN  (IF block.tag = "p" THEN <<block.html>>
              ELSE IF block.tag \in {"ul", "ol"} THEN block.items
              ELSE <<>>) \o InlineMarkup(Tail(blocks))

\* C19: the markup of a paragraph or list item holds no markup construct
\* but the strong and em elements made from the ** and * delimiters: a
\* markup character of the input is never in it as it came.
C19_InlineMarkupEscaped ==
    formatted # Null =>
        \A i \in 1..Len(InlineMarkup(formatted.items)) :
            Range(InlineMarkup(formatted.items)[i]) \cap MarkupCharacters = {}

\* forEach is at an empty line outside a code block
AtBlankLine == InLoop /\ ~isCodeBlock /\ TrimLine(CurrentLine) = <<>>

IsBulletLine(line) ==
    StartsWith(TrimLine(line), <<"*", " ">>)
        \/ StartsWith(TrimLine(line), <<"-", " ">>)

ItemOf(line) ==
    LET trimmedLine == TrimLine(line)
    IN  IF StartsWith(trimmedLine, <<"#", " ">>)
             \/ StartsWith(trimmedLine, <<"#", "#", " ">>)
             \/ StartsWith(trimmedLine, <<"#", "#", "#", " ">>)
        THEN <<>>
        ELSE IF IsBulletLine(line) THEN <<Substring(trimmedLine, 2)>>
        ELSE IF OrderedMarker(trimmedLine) > 0
        THEN <<Substring(trimmedLine, OrderedMarker(trimmedLine))>>
        ELSE <<>>

\* the lines of ls inside a fenced region, closed or not
RECURSIVE InsideLines(_, _)
InsideLines(ls, inside) ==
    IF ls = <<>> THEN <<>>
    ELSE IF IsFence(Head(ls)) THEN InsideLines(Tail(ls), ~inside)
    ELSE IF inside THEN <<Head(ls)>> \o InsideLines(Tail(ls), inside)
    ELSE InsideLines(Tail(ls), inside)

RECURSIVE ItemsOf(_)
ItemsOf(ls) ==
    IF ls = <<>> THEN <<>>
    ELSE (IF ItemOf(Head(ls)) = <<>> THEN <<>>
          ELSE <<FormatLine(ItemOf(Head(ls))[1])>>) \o ItemsOf(Tail(ls))

\* the list items of blocks, and the code of its code blocks, in order
RECURSIVE ListItemsIn(_)
ListItemsIn(blocks) ==
    IF blocks = <<>> THEN <<>>
    ELSE (IF Head(blocks).tag \in {"ul", "ol"} THEN Head(blocks).items
          ELSE <<>>) \o ListItemsIn(Tail(blocks))

RECURSIVE CodeIn(_)
CodeIn(blocks) ==
    IF blocks = <<>> THEN <<>>
    ELSE (IF Head(blocks).tag = "pre" THEN Head(blocks).code ELSE <<>>)
             \o CodeIn(Tail(blocks))

\* C21: once the pass is over the list buffer and the code buffer are
\* empty, no list and no code block is open, and the output holds every
\* list item and every code line collected, in input order, those of a
\* list or a code fence still open at the end of the input included.
C21_EndOfInputFlushes ==
    formatted # Null =>
        /\ listItems = <<>> /\ listType = NoList
        /\ codeContent = <<>> /\ ~isCodeBlock
        /\ formatted.items = elements
        /\ ListItemsIn(formatted.items) = ItemsOf(OutsideLines(lines, FALSE))
        /\ CodeIn(formatted.items) = Verbatim(InsideLines(lines, FALSE))
        /\ Len(CodeBlocks(formatted.items))
              = Len(FencedRegions(lines, FALSE, <<>>))

\* a list item, then a code fence that is never closed: the list and the
\* unterminated code block are both in the output
C21_Witness ==
    /\ lines = <<(<<"*", " ", "a">>), Fence, (<<"*", " ", "a">>)>>
    /\ formatted = Arr(<<[tag |-> "ul", items |-> <<(<<"a">>)>>],
                         [tag |-> "pre", code |-> <<"*", " ", "a", "\n">>]>>)

----------------------------------------------------------------------------
(* Flashcard test: the marks *)

\* "I Knew It!" is pressed in this step
MarksKnown ==
    testState.active /\ testState'.masteredCards # testState.masteredCards

\* C22: "I Knew It!" takes exactly the card at currentIndex out of the
\* cards to test and appends that card as the last mastered card; the other
\* cards to test and the cards mastered before keep their order; afterwards
\* the answer is hidden and currentIndex is 0 if it no longer indexes a
\* card to test, and what it was otherwise.
C22_KnownCardMoved ==
    [][MarksKnown =>
          LET cards == testState.cardsToTest
              idx == testState.currentIndex
          IN  /\ idx < Len(cards)
              /\ testState'.cardsToTest = Without(cards, idx)
              /\ testState'.masteredCards
                    = testState.masteredCards \o <<cards[idx + 1]>>
              /\ ~testState'.showAnswer
              /\ testState'.currentIndex
                    = (IF idx < Len(cards) - 1 THEN idx ELSE 0)
              /\ testState'.active]_vars

\* the second of three cards to test was marked as known after the first:
\* both are mastered, in that order, and one card is left
C22_Witness ==
    /\ testState.active
    /\ Len(flashcards) = 3
    /\ Len(testState.masteredCards) = 2
    /\ Len(testState.cardsToTest) = 1
    /\ ~testState.showAnswer
    /\ lastReviewed = Undefined

\* C23: "I Knew It!" and "Needs Review" happen only while the answer of
\* the current card is shown, and each hides it again; the answer gets
\* shown only by "Show Answer", which changes nothing else, so that between
\* two marks there is a "Show Answer".
C23_MarkOnlyWhenRevealed ==
    [][/\ (MarksKnown \/ MarksNeedsReview) =>
             (testState.showAnswer /\ ~testState'.showAnswer)
       /\ (~testState.showAnswer /\ testState'.showAnswer) =>
             /\ TestCardShown
             /\ ~MarksKnown /\ ~MarksNeedsReview
             /\ testState' = [testState EXCEPT !.showAnswer = TRUE]
             /\ UNCHANGED <<flashcards, currentCardIndex, isFlipped>>]_vars

\* a card was marked as known, and then, after its answer was shown, the
\* next one was marked for review
C23_Witness ==
    /\ testState.active
    /\ Len(testState.masteredCards) = 1
    /\ lastReviewed # Undefined
    /\ ~testState.showAnswer

\* C26: in a running test currentIndex is 0, so that whenever a card is
\* left to test currentIndex is an index of cardsToTest and the card
\* presented is defined.
C26_CurrentIndexValid ==
    testState.active =>
        /\ testState.currentIndex = 0
        /\ Len(testState.cardsToTest) # 0 =>
              /\ 0 <= testState.currentIndex
              /\ testState.currentIndex < Len(testState.cardsToTest)
              /\ At(testState.cardsToTest, testState.currentIndex)
                    \in Range(flashcards)

\* two cards were mastered and the answer of one of the two left is shown
C26_Witness ==
    /\ TestCardShown
    /\ Len(testState.masteredCards) = 2
    /\ Len(testState.cardsToTest) = 2
    /\ testState.showAnswer

\* C30: in a running test "I Knew It!" takes exactly one card off the cards
\* to test, no step adds a card to them or takes one off the mastered
\* cards, and the test is complete when all N cards of the deck have been
\* mastered one by one; with a user who reveals the card presented and
\* does not press "Needs Review" for ever, a running test gets complete.
C30_TestTerminates ==
    /\ [][testState.active =>
             /\ MarksKnown =>
                   /\ Len(testState'.cardsToTest)
                         = Len(testState.cardsToTest) - 1
                   /\ Len(testState'.masteredCards)
                         = Len(testState.masteredCards) + 1
             /\ Len(testState'.cardsToTest) <= Len(testState.cardsToTest)
             /\ Len(testState'.masteredCards) >= Len(testState.masteredCards)
             /\ CompletionShown' =>
                   Len(testState'.masteredCards) = Len(flashcards)]_vars
    /\ testState.active ~> CompletionShown

\* a test of four cards is complete, the card mastered last having come
\* before the card mastered first in the deck
C30_Witness ==
    /\ CompletionShown
    /\ Len(testState.masteredCards) = 4
    /\ testState.masteredCards[4] < testState.masteredCards[1]

----------------------------------------------------------------------------
(* Grading *)

\* the indexes of the questions of the graded quiz whose answers compare
\* equal to the user's
Passed ==
    {i \in 0..(Len(quiz) - 1) :
        IsCorrect(Sort(quiz[i + 1].answer), Sort(Given(userAnswers, i)))}

\* C24: in a graded quiz the score and the number of incorrect questions
\* add up to the number of questions; a question is counted in the score
\* or listed as incorrect, never both, and the incorrect questions are
\* listed in the order of the quiz.
C24_GradingPartitions ==
    (submitted /\ results # Null) =>
        LET incorrect == results.incorrectQuestions
        IN  /\ results.score + Len(incorrect) = Len(quiz)
            /\ results.score = Cardinality(Passed)
            /\ Range(incorrect) = (0..(Len(quiz) - 1)) \ Passed
            /\ \A j, k \in 1..Len(incorrect) :
                  j < k => incorrect[j] < incorrect[k]

\* a quiz of two questions was graded, the first answered right and the
\* second left open
C24_Witness ==
    /\ submitted
    /\ Len(quiz) = 2
    /\ results = [score |-> 1, incorrectQuestions |-> <<1>>]

\* C25: grading leaves the quiz as it was: the answers of every question
\* are the same elements in the same order after handleSubmit as before.
C25_GradingLeavesQuiz ==
    [][Grades => quiz' = quiz]_vars

----------------------------------------------------------------------------
(* Browsing the flashcards *)

\* C27: while the flashcards are browsed currentCardIndex is an index of
\* the deck displayed, after any Previous and Next, and after the deck was
\* replaced by a refined one of another size, the empty one included.
C27_BrowseIndexValid ==
    ~testState.active =>
        /\ 0 <= currentCardIndex
        /\ currentCardIndex < Len(flashcards)

----------------------------------------------------------------------------
(* The session: selection and rejected generations *)

\* C28: the topic selection refers to the syllabus loaded: a selected unit
\* is a unit of it and every selected topic a topic of it, also after the
\* syllabus was extracted again or cleared by a failed extraction.
C28_SelectionWithinSyllabus ==
    /\ topicSelection.unit # NoUnit =>
          /\ Truthy(syllabus)
          /\ topicSelection.unit \in UnitsOf(syllabus)
    /\ topicSelection.topics # <<>> =>
          /\ Truthy(syllabus)
          /\ Range(topicSelection.topics) \subseteq TopicsOf(syllabus)

RejectMessages == {MindmapMessage, PdfMessage, UrlMessage}

\* handleGenerateContent returns in this step without sending a request
RejectsGeneration == error = "" /\ error' \in RejectMessages

\* C29: a generation rejected before a request is sent (Mindmap, PDF
\* source without a file, URL source with a blank URL) leaves the result,
\* the grounding references and the quiz as they were; it sets the error
\* message and isLoading is false after it.
C29_RejectionKeepsResult ==
    [][RejectsGeneration =>
          /\ UNCHANGED <<result, groundingChunks, quizContent>>
          /\ ~isLoading'
          /\ inflight' = inflight]_vars

====
